---- MODULE Spec2Model ----
(***************************************************************************)
(* MedFeeBot: change detection and state reconciliation.                   *)
(*                                                                         *)
(* The model follows src/src/storage.py (the two persisted JSON documents, *)
(* their load/save functions and find_new_pdf_urls) and src/src/main.py    *)
(* (process_url, run_check and the two entry points).  Pages, parser       *)
(* results, storage faults and Slack delivery are inputs of each call.     *)
(*                                                                         *)
(* Spec follows the runs of a fresh deployment, SpecRec the runs of a      *)
(* one-source deployment on an existing known-URLs document together with  *)
(* the history of its reconciliations, SpecFetch one call of fetch_html    *)
(* (src/src/fetcher.py) step by step, SpecRace two overlapping runs on one *)
(* known-URLs document, and SpecEnv the entry point from load_config       *)
(* (src/src/config.py) on, with TARGET_URLS as it stands in the            *)
(* environment.                                                            *)
(***************************************************************************)
EXTENDS Integers, Sequences, FiniteSets, TLC

(* ------------------------------ bounds -------------------------------- *)

\* document URLs that a page can list are 1..MaxUrl (ordered as the strings are)
MaxUrl == 2

\* meeting ids that a page can show are 1..MaxId
MaxId == 2

\* number of check cycles (invocations of an entry point)
MaxRuns == 2

\* fetch_html is called with retries in 0..MaxRetries
MaxRetries == 3

\* and with a delay of 1..MaxDelay seconds
MaxDelay == 2

Urls == 1..MaxUrl

Ids == 1..MaxId

(* --------------------------- values of Python ------------------------- *)

\* Python's None where an id is expected (dict.get of an absent key)
None == -1

\* the empty string as a meeting id (falsy, like a missing 'id')
EmptyId == 0

\* the empty dict {}
EmptyMap == [k \in {} |-> <<>>]

Range(s) == {s[i] : i \in DOMAIN s}

\* m[k] = v on a dict
Put(m, k, v) == [x \in (DOMAIN m) \cup {k} |-> IF x = k THEN v ELSE m[x]]

Min(S) == CHOOSE x \in S : \A y \in S : x <= y

RECURSIVE SortedList(_)
\* sorted(list(S)) for a set S
SortedList(S) == IF S = {} THEN <<>> ELSE <<Min(S)>> \o SortedList(S \ {Min(S)})

\* sorted(lst) for a list lst
Sorted(lst) == SortSeq(lst, LAMBDA a, b : a < b)

(* ----------------------------- configuration -------------------------- *)

PdfA == "pdfA"

PdfB == "pdfB"

Mtg == "mtg"

\* Config.url_configs: url -> monitor type (the parser is an input of the call)
url_configs == [u \in {PdfA, PdfB, Mtg} |-> IF u = Mtg THEN "meeting" ELSE "pdf"]

\* Config.target_urls, in the order of TARGET_URLS
TargetLists == {<<PdfA, PdfB>>, <<Mtg, PdfA>>}

\* Config: gcs is "gcs_bucket_name is set"
Configs == [target_urls : TargetLists, url_configs : {url_configs}, gcs : BOOLEAN]

(* --------------------------- persisted documents ---------------------- *)
\* A stored object is missing, not JSON, JSON but not an object, or a JSON
\* object; each entry of an object has the expected shape (ok) or not.

MissingDoc == [kind |-> "missing", data |-> EmptyMap]

BadJsonDoc == [kind |-> "badjson", data |-> EmptyMap]

NotDictDoc == [kind |-> "notdict", data |-> EmptyMap]

DictDoc(m) == [kind |-> "dict", data |-> [k \in DOMAIN m |-> [ok |-> TRUE, v |-> m[k]]]]

\* the validation loop of the loaders: every entry has the expected shape
ValidEntries(data) == \A k \in DOMAIN data : data[k].ok

\* an object that skips the malformed entries instead of rejecting the document
KeepValidEntries(doc) ==
    LET good == {k \in DOMAIN doc.data : doc.data[k].ok}
    IN  [k \in good |-> doc.data[k].v]

\* json.loads + isinstance(dict) + per-entry validation: the dict that is kept
ParseDoc(doc) ==
    IF doc.kind = "dict" /\ ValidEntries(doc.data)
    THEN [k \in DOMAIN doc.data |-> doc.data[k].v]
    ELSE EmptyMap

\* the fault that a load meets: storage.Client() is only constructed for
\* GCS and only while no client is cached
storage_fault(config, client, fault) ==
    IF fault = "client" /\ (~config.gcs \/ client) THEN "none" ELSE fault

\* load_known_urls: [raised, value, client]
load_known_urls(config, doc, client, fault) ==
    LET flt == storage_fault(config, client, fault)
    IN  IF config.gcs
        THEN IF flt = "client"
             THEN [raised |-> TRUE, value |-> EmptyMap, client |-> FALSE]
             ELSE IF flt = "download"
             THEN [raised |-> TRUE, value |-> EmptyMap, client |-> TRUE]
             ELSE [raised |-> FALSE, value |-> ParseDoc(doc), client |-> TRUE]
        ELSE IF flt = "download"
             THEN [raised |-> FALSE, value |-> EmptyMap, client |-> client]
             ELSE [raised |-> FALSE, value |-> ParseDoc(doc), client |-> client]

\* load_latest_meeting_ids: [raised, value, client]
load_latest_meeting_ids(config, doc, client, fault) ==
    LET flt == storage_fault(config, client, fault)
    IN  IF config.gcs
        THEN IF flt = "client"
             THEN [raised |-> TRUE, value |-> EmptyMap, client |-> FALSE]
             ELSE IF flt = "download"
             THEN [raised |-> FALSE, value |-> EmptyMap, client |-> TRUE]
             ELSE [raised |-> FALSE, value |-> ParseDoc(doc), client |-> TRUE]
        ELSE IF flt = "download"
             THEN [raised |-> FALSE, value |-> EmptyMap, client |-> client]
             ELSE [raised |-> FALSE, value |-> ParseDoc(doc), client |-> client]

\* a save that goes through whatever the backend does
saved_anyway(known_urls_dict, config, doc, fault) ==
    DictDoc([k \in DOMAIN known_urls_dict |-> Sorted(known_urls_dict[k])])

\* a save that merges the map into the stored one, entry by entry
merged_save(known_urls_dict, config, doc, fault) ==
    LET old == ParseDoc(doc)
        keys == DOMAIN old \cup DOMAIN known_urls_dict
        urls(k) == (IF k \in DOMAIN old THEN Range(old[k]) ELSE {})
                   \cup (IF k \in DOMAIN known_urls_dict
                         THEN Range(known_urls_dict[k]) ELSE {})
    IN  DictDoc([k \in keys |-> SortedList(urls(k))])

\* save_known_urls: the stored document afterwards (a failed write is swallowed)
save_known_urls(known_urls_dict, config, doc, fault) ==
    IF fault THEN doc
    ELSE DictDoc([k \in DOMAIN known_urls_dict |-> Sorted(known_urls_dict[k])])

\* save_latest_meeting_ids: the stored document afterwards
save_latest_meeting_ids(latest_ids_dict, config, doc, fault) ==
    IF fault THEN doc ELSE DictDoc(latest_ids_dict)

(* --------------------------- find_new_pdf_urls ------------------------ *)

\* set(all_known_urls_dict.get(target_url, []))
known_urls_for_target(target_url, all_known_urls_dict) ==
    IF target_url \in DOMAIN all_known_urls_dict
    THEN Range(all_known_urls_dict[target_url]) ELSE {}

\* a difference that forgets what is known
all_current_urls(current_pdf_urls, known) == current_pdf_urls

\* new_urls_for_target = current_pdf_urls - known_urls_for_target
new_urls_for_target(current_pdf_urls, known) == current_pdf_urls \ known

\* a first-observation test that takes a key with an empty list for absent
absent_or_empty(target_url, all_known_urls_dict, current_pdf_urls) ==
    /\ \/ target_url \notin DOMAIN all_known_urls_dict
       \/ all_known_urls_dict[target_url] = <<>>
    /\ current_pdf_urls # {}

\* a first-observation test that does not look at what was observed
absent_key(target_url, all_known_urls_dict, current_pdf_urls) ==
    target_url \notin DOMAIN all_known_urls_dict

\* a first-observation test that is never taken
never_first_observation(target_url, all_known_urls_dict, current_pdf_urls) == FALSE

\* the first-observation test: key absent and something observed
first_observation(target_url, all_known_urls_dict, current_pdf_urls) ==
    target_url \notin DOMAIN all_known_urls_dict /\ current_pdf_urls # {}

\* an update that replaces the known URLs by the new ones
replaced_by_new(known, new) == new

\* updated_known_for_target = known_urls_for_target.union(new_urls_for_target)
updated_known_for_target(known, new) == known \cup new

\* an update that keeps the entry of the target and nothing else
put_alone(all_known_urls_dict, target_url, urls) ==
    Put(EmptyMap, target_url, SortedList(urls))

\* all_known_urls_dict[target_url] = sorted(list(urls))
put_sorted(all_known_urls_dict, target_url, urls) ==
    Put(all_known_urls_dict, target_url, SortedList(urls))

\* an update test that also rewrites when nothing is new
always_needs_update(first, new) == TRUE

\* target_needs_update
target_needs_update(first, new) == first \/ new # {}

\* a return that gives up the new URLs when the save failed
nothing_after_failed_save(new, save_failed) == IF save_failed THEN {} ELSE new

\* return new_urls_for_target, reached whether or not the save went through
returned_after_save(new, save_failed) == new

\* the result when find_new_pdf_urls is not reached
NoFnp ==
    [called |-> FALSE, fault |-> "none", load_raised |-> FALSE, raised |-> FALSE,
     loaded |-> EmptyMap, current |-> {}, ret |-> {},
     saved |-> FALSE, save_failed |-> FALSE, save_arg |-> EmptyMap]

\* find_new_pdf_urls: what it returns, what it loaded and saved, and the
\* stored document and client afterwards
find_new_pdf_urls(target_url, current_pdf_urls, config, doc, client, loadFault, saveFault) ==
    LET ld == load_known_urls(config, doc, client, loadFault)
        base == [NoFnp EXCEPT !.called = TRUE, !.current = current_pdf_urls,
                              !.fault = storage_fault(config, client, loadFault)]
    IN  IF ld.raised
        THEN [r |-> [base EXCEPT !.load_raised = TRUE], doc |-> doc, client |-> ld.client]
        ELSE
        LET all == ld.value
            known == known_urls_for_target(target_url, all)
            diff == new_urls_for_target(current_pdf_urls, known)
            first == first_observation(target_url, all, current_pdf_urls)
            new == IF first THEN {} ELSE diff
            upd == IF first THEN put_sorted(all, target_url, current_pdf_urls)
                   ELSE IF diff # {}
                   THEN put_sorted(all, target_url, updated_known_for_target(known, diff))
                   ELSE all
            save == target_needs_update(first, diff)
        IN  [r |-> [base EXCEPT !.loaded = all,
                                !.ret = returned_after_save(new, save /\ saveFault),
                                !.saved = save,
                                !.save_failed = save /\ saveFault,
                                !.save_arg = IF save THEN upd ELSE EmptyMap],
             doc |-> IF save THEN save_known_urls(upd, config, doc, saveFault) ELSE doc,
             client |-> ld.client]

(* ------------------------------ process_url --------------------------- *)

\* a comparison that only reports a larger id
is_larger_id(latest_meeting_id, previous_meeting_id) ==
    latest_meeting_id > previous_meeting_id

\* a comparison that needs a previous id to differ from
differs_from_some_id(latest_meeting_id, previous_meeting_id) ==
    previous_meeting_id # None /\ latest_meeting_id # previous_meeting_id

\* latest_meeting_id != previous_meeting_id
is_new_meeting(latest_meeting_id, previous_meeting_id) ==
    latest_meeting_id # previous_meeting_id

\* all_latest_ids.get(url)
previous_meeting_id(url, all_latest_ids) ==
    IF url \in DOMAIN all_latest_ids THEN all_latest_ids[url] ELSE None

\* the meeting branch when it is not reached
NoMtg ==
    [called |-> FALSE, fault |-> "none", load_raised |-> FALSE, loaded |-> EmptyMap,
     previous |-> None, observed |-> None,
     saved |-> FALSE, save_failed |-> FALSE, save_arg |-> EmptyMap]

\* the payload handed to send_slack_notification, and whether Slack took it
Payload(type, urls, id, source_url, delivered) ==
    [type |-> type, urls |-> urls, id |-> id, source_url |-> source_url,
     delivered |-> delivered]

\* a call of send_admin_alert(message, error=...)
Alert(message, error) == [message |-> message, error |-> error]

\* the state of a process_url call before its first step
Start(st) ==
    [ok |-> TRUE, raised |-> FALSE, events |-> <<>>, alerts |-> <<>>, notes |-> <<>>,
     known |-> st.known, latest |-> st.latest, client |-> st.client,
     fnp |-> NoFnp, mtg |-> NoMtg]

\* return False, with the admin alerts sent on the way
Failed(o, alerts) ==
    [o EXCEPT !.ok = FALSE, !.alerts = alerts,
              !.events = o.events \o [i \in 1..Len(alerts) |-> "alert"]]

\* a send_slack_notification that lets a failed post out as an exception
raised_when_undelivered(delivered) == ~delivered

\* send_slack_notification raised: never, a failed post is logged by
\* _send_message and the call returns None as after a delivered one
notification_raised(delivered) == FALSE

\* a payload that carries every extracted document
all_documents(document_infos, new_pdf_urls) == document_infos

\* new_documents: the extracted documents whose url is in new_pdf_urls
new_documents(document_infos, new_pdf_urls) ==
    {doc \in document_infos : doc \in new_pdf_urls}

\* step 3 of process_url for monitor type 'pdf'
process_pdf(url, cfg, o, inp) ==
    IF inp.parse.k # "list" THEN Failed(o, <<>>)
    ELSE
    LET f == find_new_pdf_urls(url, inp.parse.urls, cfg, o.known, o.client,
                               inp.loadFault, inp.saveFault)
        o1 == [o EXCEPT !.fnp = f.r, !.known = f.doc, !.client = f.client,
                        !.events = o.events \o <<"load_known">> \o
                                   (IF f.r.saved THEN <<"save_known">> ELSE <<>>)]
    IN  IF f.r.ret # {}
        THEN LET o2 == [o1 EXCEPT
                          !.events = o1.events \o <<"notify">>,
                          !.notes = <<Payload("pdf", new_documents(inp.parse.urls, f.r.ret),
                                              None, url, inp.slackOk)>>]
             IN  IF notification_raised(inp.slackOk)
                 THEN Failed(o2, <<Alert("Error during pdf processing", "notify")>>)
                 ELSE o2
        ELSE o1

\* a test for an absent record that is never met
never_absent(parse_result) == FALSE

\* parse_result is None
absent_record(parse_result) == parse_result.k = "none"

\* a meeting branch that saves the id before it notifies
save_then_notify == <<"save_ids", "notify">>

\* what the meeting branch does for a new id: send_slack_notification, then
\* save_latest_meeting_ids
new_meeting_steps == <<"notify", "save_ids">>

\* step 3 of process_url for monitor type 'meeting'
process_meeting(url, cfg, o, inp) ==
    IF absent_record(inp.parse) THEN o
    ELSE IF inp.parse.k # "dict" THEN Failed(o, <<>>)
    ELSE IF inp.parse.id = EmptyId THEN Failed(o, <<>>)
    ELSE
    LET ld == load_latest_meeting_ids(cfg, o.latest, o.client, inp.loadFault)
        o1 == [o EXCEPT !.events = o.events \o <<"load_ids">>, !.client = ld.client,
                        !.mtg = [NoMtg EXCEPT !.called = TRUE,
                                              !.fault = storage_fault(cfg, o.client,
                                                                      inp.loadFault),
                                              !.observed = inp.parse.id]]
    IN  IF ld.raised
        THEN Failed([o1 EXCEPT !.mtg.load_raised = TRUE],
                    <<Alert("Error during meeting processing", "load")>>)
        ELSE
        LET all == ld.value
            prev == previous_meeting_id(url, all)
            upd == Put(all, url, inp.parse.id)
        IN  IF is_new_meeting(inp.parse.id, prev) /\ notification_raised(inp.slackOk)
            THEN Failed([o1 EXCEPT !.events = o1.events \o <<"notify">>,
                                   !.notes = <<Payload("meeting", {}, inp.parse.id, url,
                                                       inp.slackOk)>>,
                                   !.mtg.loaded = all, !.mtg.previous = prev],
                        <<Alert("Error during meeting processing", "notify")>>)
            ELSE IF is_new_meeting(inp.parse.id, prev)
            THEN [o1 EXCEPT !.events = o1.events \o new_meeting_steps,
                            !.notes = <<Payload("meeting", {}, inp.parse.id, url,
                                                inp.slackOk)>>,
                            !.mtg.loaded = all, !.mtg.previous = prev,
                            !.mtg.saved = TRUE, !.mtg.save_failed = inp.saveFault,
                            !.mtg.save_arg = upd,
                            !.latest = save_latest_meeting_ids(upd, cfg, o.latest,
                                                               inp.saveFault)]
            ELSE [o1 EXCEPT !.mtg.loaded = all, !.mtg.previous = prev]

\* a test that takes only None or an exception as a failed fetch
fetch_is_none(fetch) == fetch \in {"none", "raise"}

\* "not html_content" or an exception out of fetch_html
fetch_failed(fetch) == fetch # "html"

\* process_url(url, cfg): the whole call, on stored state st with inputs inp
process_url(url, cfg, st, inp) ==
    LET o == Start(st)
    IN  IF url \notin DOMAIN cfg.url_configs THEN Failed(o, <<>>)
        ELSE
        LET monitor_type == cfg.url_configs[url]
            o1 == [o EXCEPT !.events = <<"fetch">>]
        IN  IF fetch_failed(inp.fetch)
            THEN Failed(o1, <<Alert(IF inp.fetch = "raise" THEN "HTML fetch error"
                                    ELSE "HTML fetch failed",
                                    IF inp.fetch = "raise" THEN "fetch" ELSE "")>>)
            ELSE
            LET o2 == [o1 EXCEPT !.events = o1.events \o <<"parse">>]
            IN  IF inp.parse.k = "raise"
                THEN Failed(o2, <<Alert("Parser execution error", "parse")>>)
                ELSE IF inp.parse.k = "none" /\ monitor_type = "pdf"
                THEN Failed(o2, <<Alert("Parser error for PDF URL", "")>>)
                ELSE IF monitor_type = "pdf" THEN process_pdf(url, cfg, o2, inp)
                ELSE IF monitor_type = "meeting" THEN process_meeting(url, cfg, o2, inp)
                ELSE Failed(o2, <<>>)

(* ------------------------------ the program --------------------------- *)

VARIABLES
    known,             \* the stored known-URLs document
    latest,            \* the stored latest-ids document
    storage_client,    \* storage.storage_client is set
    cfg,               \* the Config of the deployment
    pc,                \* "idle", "call" (run_check at process_url), "ret", "done"
    idx,               \* position of run_check's loop in cfg.target_urls
    overall_success,   \* run_check's overall_success
    response,          \* what the entry point gave back
    runs,              \* number of runs started
    results,           \* this run: per processed source, what process_url did
    last,              \* the process_url call that has just returned, in full
    hist,              \* history: what earlier reconciliations did (see NoHist)
    fs,                \* a fetch_html call: its arguments, locals and position
    rc,                \* two overlapping runs: their locals and positions
    env                \* TARGET_URLS of the environment, split at the commas

vars == <<known, latest, storage_client, cfg, pc, idx, overall_success,
          response, runs, results, last, hist, fs, rc, env>>

\* the state of run_check and of the stored documents
runvars == <<known, latest, storage_client, cfg, pc, idx, overall_success,
             response, runs, results, last, hist, rc, env>>

\* what a parser can return: an exception, None, a list of documents (their
\* urls), or a dict with an id (EmptyId: no usable 'id')
NoParse == [k |-> "none", urls |-> {}, id |-> None]

RaiseParse == [k |-> "raise", urls |-> {}, id |-> None]

\* a fetched page as the extractors see it: malformed is a page on which the
\* extraction code throws, urls the complete document rows it holds, id the
\* id of its first meeting row (None: a required field of the row is missing)
Pages == [malformed : BOOLEAN, urls : SUBSET Urls, id : Ids \cup {None}]

\* an extractor that lets the exception out
raising_extractor(page) ==
    IF page.malformed THEN RaiseParse
    ELSE [k |-> "list", urls |-> page.urls, id |-> None]

\* extract_hospital_document_info: the complete rows, [] on any exception
extract_hospital_document_info(page) ==
    IF page.malformed THEN [k |-> "list", urls |-> {}, id |-> None]
    ELSE [k |-> "list", urls |-> page.urls, id |-> None]

\* extract_latest_chuikyo_meeting: the first row's record, None when a
\* required field is missing or on any exception
extract_latest_chuikyo_meeting(page) ==
    IF page.malformed THEN NoParse
    ELSE IF page.id = None THEN NoParse
    ELSE [k |-> "dict", urls |-> {}, id |-> page.id]

\* what parser_func returns without raising: the results of the two
\* extractors, and a dict without a usable 'id'
Parses ==
    {extract_hospital_document_info(page) : page \in Pages}
    \cup {extract_latest_chuikyo_meeting(page) : page \in Pages}
    \cup [k : {"dict"}, urls : {{}}, id : {EmptyId}]

\* the inputs of one process_url call: the outcome of the fetch, of the
\* parser, of the storage backend and of Slack (an input that the call cannot
\* reach is left at its default)
Inputs ==
    [fetch : {"none", "empty", "raise"}, parse : {NoParse},
     loadFault : {"none"}, saveFault : {FALSE}, slackOk : {TRUE}]
    \cup [fetch : {"html"}, parse : {NoParse, RaiseParse},
          loadFault : {"none"}, saveFault : {FALSE}, slackOk : {TRUE}]
    \cup [fetch : {"html"}, parse : Parses,
          loadFault : {"none", "client", "download"}, saveFault : BOOLEAN,
          slackOk : BOOLEAN]

NoCall ==
    [called |-> FALSE, url |-> "", known0 |-> MissingDoc, latest0 |-> MissingDoc,
     fetch |-> "none", parse |-> NoParse,
     out |-> Start([known |-> MissingDoc, latest |-> MissingDoc, client |-> FALSE])]

\* the sources of monitor type 'pdf'
PdfSources == {u \in DOMAIN url_configs : url_configs[u] = "pdf"}

\* no earlier reconciliation
NoPrev ==
    [called |-> FALSE, url |-> "", fault |-> "none", key |-> FALSE, current |-> {},
     ret |-> {}, notified |-> FALSE, saved |-> FALSE, save_failed |-> FALSE]

\* the history at the start: prev is the latest find_new_pdf_urls call that
\* got a map from load_known_urls; seen[u] are the URLs that such calls for
\* source u had in their current set (each one returned as new or classified
\* as not new), recorded until lost: a save failed or a load met a fault.
\* The history is recorded only where on is set.
NoHist(on) ==
    [on |-> on, prev |-> NoPrev, seen |-> [u \in PdfSources |-> {}], lost |-> FALSE]

\* the history after the process_url call c
Track(h, c) ==
    LET f == c.out.fnp
    IN  IF ~h.on \/ ~c.called \/ ~f.called \/ f.load_raised THEN h
        ELSE [h EXCEPT
                !.prev = [called |-> TRUE, url |-> c.url, fault |-> f.fault,
                          key |-> c.url \in DOMAIN f.loaded, current |-> f.current,
                          ret |-> f.ret, notified |-> c.out.notes # <<>>,
                          saved |-> f.saved, save_failed |-> f.save_failed],
                !.seen = IF h.lost THEN h.seen
                         ELSE [h.seen EXCEPT ![c.url] = @ \cup f.current],
                !.lost = h.lost \/ f.save_failed \/ f.fault # "none"]

\* the two runs of an overlap
Racers == {1, 2}

\* a run of an overlap before it has loaded anything: f is what its
\* find_new_pdf_urls computes from the map it loads, notified the documents
\* it hands to send_slack_notification
NoRacer == [pc |-> "load", url |-> "", f |-> NoFnp, notified |-> {}]

\* no overlap is followed; writer is the run that wrote the document last
NoRace == [run |-> [p \in Racers |-> NoRacer], writer |-> 0]

\* no fetch_html call is followed
NoFetch ==
    [pc |-> "off", retries |-> 0, delay |-> 0, attempts |-> 0, log |-> <<>>,
     slept |-> <<>>, ret |-> "none"]

Init ==
    /\ known = MissingDoc
    /\ latest = MissingDoc
    /\ storage_client = FALSE
    /\ cfg \in Configs
    /\ pc = "idle"
    /\ idx = 1
    /\ overall_success = TRUE
    /\ response = "none"
    /\ runs = 0
    /\ results = <<>>
    /\ last = NoCall
    /\ hist = NoHist(FALSE)
    /\ fs = NoFetch
    /\ rc = NoRace
    /\ env = cfg.target_urls

\* an entry point (main_gcf or __main__) is invoked in a fresh process and
\* load_config succeeds: run_check starts
StartRun ==
    /\ pc \in {"idle", "done"}
    /\ runs < MaxRuns
    /\ runs' = runs + 1
    /\ storage_client' = FALSE
    /\ pc' = "call"
    /\ idx' = 1
    /\ overall_success' = TRUE
    /\ response' = "none"
    /\ results' = <<>>
    /\ last' = NoCall
    /\ UNCHANGED <<known, latest, cfg, env, hist, fs, rc>>

\* entry point e is invoked and load_config raises
ConfigError(e) ==
    /\ pc \in {"idle", "done"}
    /\ runs < MaxRuns
    /\ runs' = runs + 1
    /\ pc' = "done"
    /\ response' = IF e = "gcf" THEN "500" ELSE "exit1"
    /\ results' = <<>>
    /\ last' = NoCall
    /\ UNCHANGED <<known, latest, storage_client, cfg, env, idx, overall_success, hist, fs, rc>>

\* run_check line 150: success = process_url(url, cfg)
CallProcessUrl(inp) ==
    /\ pc = "call"
    /\ idx <= Len(cfg.target_urls)
    /\ LET url == cfg.target_urls[idx]
           o == process_url(url, cfg,
                            [known |-> known, latest |-> latest, client |-> storage_client],
                            inp)
       IN  /\ known' = o.known
           /\ latest' = o.latest
           /\ storage_client' = o.client
           /\ last' = [called |-> TRUE, url |-> url, known0 |-> known, latest0 |-> latest,
                       fetch |-> inp.fetch,
                       parse |-> IF inp.fetch = "html" THEN inp.parse ELSE NoParse,
                       out |-> o]
    /\ pc' = "ret"
    /\ UNCHANGED <<cfg, env, idx, overall_success, response, runs, results, hist, fs, rc>>

\* an aggregate that keeps only the latest source's outcome
only_latest(overall, success) == success

\* overall_success after one more source
all_so_far(overall, success) == overall /\ success

\* a loop that gives up at the first failed source
stop_at_failure(i, n, success) == IF success THEN i + 1 ELSE n + 1

\* the loop goes on to the next target url whatever the outcome
next_index(i, n, success) == i + 1

\* what run_check's loop leaves behind of one process_url call
Summary(c) ==
    [url |-> c.url, ok |-> c.out.ok /\ ~c.out.raised, fetch_ok |-> c.fetch = "html",
     fetched |-> "fetch" \in Range(c.out.events),
     storage |-> Range(c.out.events)
                 \cap {"load_known", "save_known", "load_ids", "save_ids"} # {},
     new |-> \/ c.out.fnp.ret # {}
             \/ /\ c.out.mtg.called /\ ~c.out.mtg.load_raised
                /\ c.out.mtg.observed # c.out.mtg.previous,
     notified |-> c.out.notes # <<>>]

\* run_check lines 151-162: the outcome of the call enters overall_success
\* and the loop moves on
Aggregate ==
    /\ pc = "ret"
    /\ overall_success' = all_so_far(overall_success, last.out.ok /\ ~last.out.raised)
    /\ results' = Append(results, Summary(last))
    /\ idx' = next_index(idx, Len(cfg.target_urls), last.out.ok /\ ~last.out.raised)
    /\ last' = NoCall
    /\ hist' = Track(hist, last)
    /\ pc' = "call"
    /\ UNCHANGED <<known, latest, storage_client, cfg, env, response, runs, fs, rc>>

\* run_check returns to the entry point e that called it, which answers
FinishRun(e) ==
    /\ pc = "call"
    /\ idx > Len(cfg.target_urls)
    /\ pc' = "done"
    /\ response' = IF e = "gcf"
                   THEN (IF overall_success THEN "200" ELSE "500")
                   ELSE (IF overall_success THEN "exit0" ELSE "exit1")
    /\ UNCHANGED <<known, latest, storage_client, cfg, env, idx, overall_success,
                   runs, results, last, hist, fs, rc>>

\* between runs the stored objects are outside the program's control: an
\* object is deleted, overwritten with something unreadable, or one entry of
\* a JSON object is given the wrong shape
Damaged(doc, keys) ==
    {MissingDoc, BadJsonDoc, NotDictDoc}
    \cup {[doc EXCEPT !.kind = "dict",
                      !.data = Put(doc.data, k, [ok |-> FALSE, v |-> <<>>])] : k \in keys}

TamperKnown ==
    /\ pc \in {"idle", "done"}
    /\ known' \in Damaged(known, {u \in Range(cfg.target_urls) : cfg.url_configs[u] = "pdf"})
    /\ UNCHANGED <<latest, storage_client, cfg, env, pc, idx, overall_success,
                   response, runs, results, last, hist, fs, rc>>

TamperLatest ==
    /\ pc \in {"idle", "done"}
    /\ latest' \in Damaged(latest, {u \in Range(cfg.target_urls) : cfg.url_configs[u] = "meeting"})
    /\ UNCHANGED <<known, storage_client, cfg, env, pc, idx, overall_success,
                   response, runs, results, last, hist, fs, rc>>

Next ==
    \/ StartRun
    \/ \E e \in {"gcf", "main"} : ConfigError(e)
    \/ \E inp \in Inputs : CallProcessUrl(inp)
    \/ Aggregate
    \/ \E e \in {"gcf", "main"} : FinishRun(e)
    \/ TamperKnown
    \/ TamperLatest

Spec == Init /\ [][Next]_vars

(* ------------------- runs on a state left by earlier runs ------------- *)

\* a known-URLs document as earlier runs or an operator left it: a JSON
\* object with a sorted list of URLs, possibly empty, for some of the sources
SeedDocs ==
    {MissingDoc} \cup {DictDoc(Put(EmptyMap, PdfA, SortedList(S))) : S \in SUBSET Urls}

\* the inputs of a call that reaches the reconciliation, and a failed fetch
RecInputs ==
    {inp \in Inputs : inp.slackOk /\ (inp.parse.k = "list" \/ inp.fetch = "none")}

\* deployments with one document-list source in TARGET_URLS
RecConfigs == [target_urls : {<<PdfA>>}, url_configs : {url_configs}, gcs : BOOLEAN]

\* the program is deployed on an existing known-URLs document, and the
\* reconciliations are followed from there
InitRec ==
    /\ known \in SeedDocs
    /\ latest = MissingDoc
    /\ storage_client = FALSE
    /\ cfg \in RecConfigs
    /\ pc = "idle"
    /\ idx = 1
    /\ overall_success = TRUE
    /\ response = "none"
    /\ runs = 0
    /\ results = <<>>
    /\ last = NoCall
    /\ hist = NoHist(TRUE)
    /\ fs = NoFetch
    /\ rc = NoRace
    /\ env = cfg.target_urls

NextRec ==
    \/ StartRun
    \/ \E inp \in RecInputs : CallProcessUrl(inp)
    \/ Aggregate
    \/ \E e \in {"gcf", "main"} : FinishRun(e)

SpecRec == InitRec /\ [][NextRec]_vars

(* ------------------------------ fetch_html ---------------------------- *)
\* fs.log holds the outcome of every requests.get so far, fs.slept the
\* argument of every time.sleep, fs.ret what fetch_html returned ("none" for
\* None, "html" for a page text, "empty" for an empty text).

\* what one request can come to: a response with a text (empty or not), a
\* RequestException (raise_for_status included), or another exception
Outcomes == {"html", "empty", "RequestException", "Exception"}

Failures == {"RequestException", "Exception"}

\* fetch_html(url, timeout, retries, delay) is entered
InitFetch ==
    /\ known = MissingDoc
    /\ latest = MissingDoc
    /\ storage_client = FALSE
    /\ cfg = [target_urls |-> <<PdfA>>, url_configs |-> url_configs, gcs |-> FALSE]
    /\ pc = "call"
    /\ idx = 1
    /\ overall_success = TRUE
    /\ response = "none"
    /\ runs = 1
    /\ results = <<>>
    /\ last = NoCall
    /\ hist = NoHist(FALSE)
    /\ fs \in [pc : {"while"}, retries : 0..MaxRetries, delay : 1..MaxDelay,
               attempts : {0}, log : {<<>>}, slept : {<<>>}, ret : {"none"}]
    /\ rc = NoRace
    /\ env = cfg.target_urls

\* while attempts < retries
loop_continues(attempts, retries) == attempts < retries

\* a handler that waits after the last attempt too
always_wait(attempts, retries) == TRUE

\* if attempts < retries, in both except clauses
retry_left(attempts, retries) == attempts < retries

\* line 34-35: the loop test; attempts += 1, or the return None after the loop
FetchWhile ==
    /\ fs.pc = "while"
    /\ fs' = IF loop_continues(fs.attempts, fs.retries)
             THEN [fs EXCEPT !.attempts = @ + 1, !.pc = "get"]
             ELSE [fs EXCEPT !.ret = "none", !.pc = "done"]
    /\ UNCHANGED runvars

\* lines 38-48: requests.get and raise_for_status; return response.text
FetchGet(outcome) ==
    /\ fs.pc = "get"
    /\ fs' = IF outcome \in Failures
             THEN [fs EXCEPT !.log = Append(@, outcome), !.pc = "except"]
             ELSE [fs EXCEPT !.log = Append(@, outcome), !.ret = outcome, !.pc = "done"]
    /\ UNCHANGED runvars

\* lines 50-66: either except clause; time.sleep(delay), or return None
FetchExcept ==
    /\ fs.pc = "except"
    /\ fs' = IF retry_left(fs.attempts, fs.retries)
             THEN [fs EXCEPT !.slept = Append(@, fs.delay), !.pc = "while"]
             ELSE [fs EXCEPT !.ret = "none", !.pc = "done"]
    /\ UNCHANGED runvars

NextFetch ==
    \/ FetchWhile
    \/ \E outcome \in Outcomes : FetchGet(outcome)
    \/ FetchExcept

\* the call runs on: a request returns or raises within its timeout and a
\* sleep ends
SpecFetch == InitFetch /\ [][NextFetch]_vars /\ WF_vars(NextFetch)

(* --------------------------- overlapping runs ------------------------- *)
\* Two invocations run at the same time on the same stored document (two
\* triggers of the function, or a trigger during a slow run).  Each is
\* followed through the reconciliation of one document-list source; its
\* load, its save and its notification are separate steps, and nothing
\* keeps the other run from stepping in between.

InitRace ==
    /\ known \in SeedDocs
    /\ latest = MissingDoc
    /\ storage_client = TRUE
    /\ cfg = [target_urls |-> <<PdfA, PdfB>>, url_configs |-> url_configs, gcs |-> TRUE]
    /\ pc = "call"
    /\ idx = 1
    /\ overall_success = TRUE
    /\ response = "none"
    /\ runs = 2
    /\ results = <<>>
    /\ last = NoCall
    /\ hist = NoHist(FALSE)
    /\ fs = NoFetch
    /\ rc = NoRace
    /\ env = cfg.target_urls

\* storage.py 211-232: run p, at source url with the URLs current on its
\* page, loads the stored document and computes what is new and what to save
RaceLoad(p, url, current) ==
    /\ rc.run[p].pc = "load"
    /\ LET f == find_new_pdf_urls(url, current, cfg, known, TRUE, "none", FALSE).r
       IN  rc' = [rc EXCEPT !.run[p] = [@ EXCEPT !.url = url, !.f = f,
                                                !.pc = IF f.saved THEN "save"
                                                       ELSE "notify"]]
    /\ UNCHANGED <<known, latest, storage_client, cfg, env, pc, idx, overall_success,
                   response, runs, results, last, hist, fs>>

\* storage.py 235-239: run p writes the whole map it computed
RaceSave(p) ==
    /\ rc.run[p].pc = "save"
    /\ known' = save_known_urls(rc.run[p].f.save_arg, cfg, known, FALSE)
    /\ rc' = [rc EXCEPT !.run[p].pc = "notify", !.writer = p]
    /\ UNCHANGED <<latest, storage_client, cfg, env, pc, idx, overall_success,
                   response, runs, results, last, hist, fs>>

\* main.py 82-88: run p notifies the new documents, if any
RaceNotify(p) ==
    /\ rc.run[p].pc = "notify"
    /\ rc' = [rc EXCEPT !.run[p].pc = "done",
                        !.run[p].notified =
                            IF rc.run[p].f.ret # {}
                            THEN new_documents(rc.run[p].f.current, rc.run[p].f.ret)
                            ELSE {}]
    /\ UNCHANGED <<known, latest, storage_client, cfg, env, pc, idx, overall_success,
                   response, runs, results, last, hist, fs>>

NextRace ==
    \/ \E p \in Racers, url \in PdfSources, current \in SUBSET Urls :
          RaceLoad(p, url, current)
    \/ \E p \in Racers : RaceSave(p)
    \/ \E p \in Racers : RaceNotify(p)

SpecRace == InitRace /\ [][NextRace]_vars

(* ------------------- load_config and the target URLs ------------------ *)
\* A second specification: the entry point reads TARGET_URLS, held in env,
\* and load_config checks it against the per-URL mapping before run_check.

\* a URL that is no key of load_config's url_configs_dict
Other == "other"

\* TARGET_URLS: unset or empty, or one or two URLs
EnvLists ==
    {<<>>}
    \cup {<<a>> : a \in {PdfA, Mtg, Other}}
    \cup {<<a, b>> : a, b \in {PdfA, Mtg, Other}}

\* the Config that does not exist before load_config; gcs is GCS_BUCKET_NAME
NoConfig(gcs) == [target_urls |-> <<>>, url_configs |-> EmptyMap, gcs |-> gcs]

\* a validation that keeps every URL of TARGET_URLS
kept_unconfigured(target_urls_list) == target_urls_list

\* valid_target_urls: the URLs of TARGET_URLS that are configured, in order
valid_target_urls(target_urls_list) ==
    SelectSeq(target_urls_list, LAMBDA u : u \in DOMAIN url_configs)

\* load_config: raises ValueError when TARGET_URLS is empty or holds no
\* configured URL; else the Config of the valid URLs and their entries
load_config(target_urls_list, gcs) ==
    LET valid == valid_target_urls(target_urls_list)
    IN  IF target_urls_list = <<>> \/ valid = <<>>
        THEN [raised |-> TRUE, value |-> NoConfig(gcs)]
        ELSE [raised |-> FALSE,
              value |-> [target_urls |-> valid,
                         url_configs |-> [u \in DOMAIN url_configs \cap Range(valid)
                                            |-> url_configs[u]],
                         gcs |-> gcs]]

\* the storage and Slack outcomes of the calls that are followed here
EnvInputs ==
    {inp \in Inputs : inp.loadFault = "none" /\ ~inp.saveFault /\ inp.slackOk}

InitEnv ==
    /\ known = MissingDoc
    /\ latest = MissingDoc
    /\ storage_client = FALSE
    /\ env \in EnvLists
    /\ cfg \in {NoConfig(gcs) : gcs \in BOOLEAN}
    /\ pc = "idle"
    /\ idx = 1
    /\ overall_success = TRUE
    /\ response = "none"
    /\ runs = 0
    /\ results = <<>>
    /\ last = NoCall
    /\ hist = NoHist(FALSE)
    /\ fs = NoFetch
    /\ rc = NoRace

\* entry point e (main_gcf or __main__) is invoked: load_config, and on a
\* ValueError the answer 500 or exit(1), else run_check starts
Invoke(e) ==
    /\ pc \in {"idle", "done"}
    /\ runs < MaxRuns
    /\ runs' = runs + 1
    /\ LET c == load_config(env, cfg.gcs)
       IN  IF c.raised
           THEN /\ pc' = "done"
                /\ response' = IF e = "gcf" THEN "500" ELSE "exit1"
                /\ UNCHANGED <<cfg, storage_client, idx, overall_success>>
           ELSE /\ cfg' = c.value
                /\ storage_client' = FALSE
                /\ pc' = "call"
                /\ idx' = 1
                /\ overall_success' = TRUE
                /\ response' = "none"
    /\ results' = <<>>
    /\ last' = NoCall
    /\ UNCHANGED <<known, latest, env, hist, fs, rc>>

NextEnv ==
    \/ \E e \in {"gcf", "main"} : Invoke(e)
    \/ \E inp \in EnvInputs : CallProcessUrl(inp)
    \/ Aggregate
    \/ \E e \in {"gcf", "main"} : FinishRun(e)

SpecEnv == InitEnv /\ [][NextEnv]_vars

(* ------------------------------ properties ---------------------------- *)

\* the find_new_pdf_urls call inside the process_url call that just returned
F == last.out.fnp

\* the meeting branch of the process_url call that just returned
M == last.out.mtg

\* find_new_pdf_urls ran and load_known_urls gave it a map
Reconciled == last.called /\ F.called /\ ~F.load_raised

\* the meeting branch ran and load_latest_meeting_ids gave it a map
MeetingChecked == last.called /\ M.called /\ ~M.load_raised

\* a stored object from which a loader gets nothing
Unreadable(doc) == doc.kind # "dict" \/ ~ValidEntries(doc.data)

\* C1: first-run suppression.  When the source's key is absent from the
\* loaded known-URLs map and the current URL set is non-empty,
\* find_new_pdf_urls returns the empty set, nothing is notified, and the map
\* it saves has the source mapped to exactly the current URLs (sorted); that
\* map is what is stored when the write succeeds.
C1_FirstRunSuppression ==
    (Reconciled /\ last.url \notin DOMAIN F.loaded /\ F.current # {})
    => /\ F.ret = {}
       /\ last.out.notes = <<>>
       /\ F.saved
       /\ last.url \in DOMAIN F.save_arg
       /\ F.save_arg[last.url] = SortedList(F.current)
       /\ Range(F.save_arg[last.url]) = F.current
       /\ (~F.save_failed => last.out.known = DictDoc(F.save_arg))

C1_Witness ==
    /\ Reconciled /\ last.url \notin DOMAIN F.loaded /\ F.current = Urls
    /\ F.saved /\ ~F.save_failed

\* C2: incremental detection.  When the source's key is present in the
\* loaded map, find_new_pdf_urls returns exactly current minus known; if that
\* is non-empty the saved map has the source mapped to known union new and
\* every other source's entry exactly as loaded, and the whole map is what is
\* stored when the write succeeds.
C2_IncrementalDetection ==
    (Reconciled /\ last.url \in DOMAIN F.loaded)
    => LET knownSet == Range(F.loaded[last.url])
       IN  /\ F.ret = F.current \ knownSet
           /\ F.ret # {} =>
                /\ F.saved
                /\ DOMAIN F.save_arg = DOMAIN F.loaded
                /\ F.save_arg[last.url] = SortedList(knownSet \cup F.ret)
                /\ \A k \in DOMAIN F.loaded \ {last.url} : F.save_arg[k] = F.loaded[k]
                /\ (~F.save_failed => last.out.known = DictDoc(F.save_arg))

C2_Witness ==
    /\ Reconciled /\ last.url \in DOMAIN F.loaded
    /\ Range(F.loaded[last.url]) # {} /\ F.ret # {} /\ ~F.save_failed
    /\ \E k \in DOMAIN F.loaded \ {last.url} : F.loaded[k] # <<>>

\* C3: no-op write avoidance.  When the source's key is present and the
\* current URL set is a subset of the known set (the empty set included),
\* find_new_pdf_urls returns the empty set and does not save: the stored
\* known-URLs document is unchanged.
C3_NoOpWriteAvoidance ==
    (Reconciled /\ last.url \in DOMAIN F.loaded
       /\ F.current \subseteq Range(F.loaded[last.url]))
    => /\ F.ret = {}
       /\ ~F.saved
       /\ "save_known" \notin Range(last.out.events)
       /\ last.out.known = last.known0

C3_Witness ==
    /\ Reconciled /\ last.url \in DOMAIN F.loaded
    /\ F.current # {} /\ F.current # Range(F.loaded[last.url])
    /\ F.current \subseteq Range(F.loaded[last.url])

\* C4: record-id change detection.  For a meeting source with a parsed
\* record, a notification is sent and the latest id of the source is
\* overwritten with the observed id if and only if the observed id differs
\* from the persisted id (the one the load gave; with a fault-free load, the
\* one in the stored document); when they are equal nothing is sent and
\* nothing is saved.  Only inequality matters, not order.
C4_RecordIdChange ==
    MeetingChecked
    => /\ M.previous = previous_meeting_id(last.url, M.loaded)
       /\ (M.fault = "none"
             => M.previous = previous_meeting_id(last.url, ParseDoc(last.latest0)))
       /\ (last.out.notes # <<>>) <=> (M.observed # M.previous)
       /\ M.saved <=> (M.observed # M.previous)
       /\ M.saved => M.save_arg = Put(M.loaded, last.url, M.observed)
       /\ (M.saved /\ ~M.save_failed) => last.out.latest = DictDoc(M.save_arg)
       /\ (M.observed = M.previous) => last.out.latest = last.latest0

C4_Witness ==
    /\ MeetingChecked /\ M.fault = "none"
    /\ M.previous \in Ids /\ M.observed < M.previous
    /\ last.out.notes # <<>> /\ M.saved /\ ~M.save_failed

\* C5: the first-ever record is new.  When the latest-id map has no entry for
\* a meeting source, any observed record id is notified and persisted; a
\* document-list source whose key is absent notifies nothing.
C5_FirstRecordIsNew ==
    /\ (MeetingChecked /\ last.url \notin DOMAIN M.loaded)
       => /\ Len(last.out.notes) = 1
          /\ last.out.notes[1].type = "meeting"
          /\ last.out.notes[1].id = M.observed
          /\ M.saved
          /\ M.save_arg[last.url] = M.observed
          /\ (~M.save_failed => last.out.latest.data[last.url].v = M.observed)
    /\ (Reconciled /\ last.url \notin DOMAIN F.loaded) => last.out.notes = <<>>

C5_Witness ==
    /\ MeetingChecked /\ last.url \notin DOMAIN M.loaded
    /\ last.latest0 = MissingDoc /\ M.observed \in Ids /\ ~M.save_failed

\* the sources of the finished run whose fetch failed
FetchFailures == {i \in DOMAIN results : ~results[i].fetch_ok}

RunFailed == response \in {"500", "exit1"}

\* C6: per-source isolation.  When run_check has returned and the fetch of
\* some source A failed, the run reports failure, every configured source
\* was still fetched, no load or save of state and no notification was made
\* for A, and every source B that was processed successfully with a new item
\* had its notification sent.
C6_PerSourceIsolation ==
    (pc = "done" /\ FetchFailures # {})
    => /\ RunFailed
       /\ ~overall_success
       /\ Len(results) = Len(cfg.target_urls)
       /\ \A i \in DOMAIN results :
            /\ results[i].url = cfg.target_urls[i]
            /\ results[i].fetched
            /\ (results[i].ok /\ results[i].new) => results[i].notified
       /\ \A a \in FetchFailures :
            ~results[a].storage /\ ~results[a].notified /\ ~results[a].ok

C6_Witness ==
    /\ pc = "done" /\ Len(results) = 2
    /\ ~results[1].fetch_ok
    /\ results[2].ok /\ results[2].new /\ results[2].notified

\* C7: run-level signal.  run_check returns success exactly when every
\* configured source was processed successfully; the HTTP entry point answers
\* 200 in that case and 500 when a source failed or the configuration could
\* not be loaded, and the direct entry point exits 0 and non-zero likewise.
C7_RunLevelSignal ==
    pc = "done"
    => LET allOk == /\ Len(results) = Len(cfg.target_urls)
                    /\ \A i \in DOMAIN results : results[i].ok
       IN  /\ allOk => response \in {"200", "exit0"}
           /\ ~allOk => response \in {"500", "exit1"}
           /\ (results # <<>>) => (overall_success <=> allOk)

C7_Witness ==
    /\ pc = "done" /\ response = "500"
    /\ Len(results) = 2 /\ ~results[1].ok /\ results[2].ok

\* C8: a state backend that cannot be reached is fatal for a document-list
\* source.  When load_known_urls fails with a backend error, the error
\* propagates out of find_new_pdf_urls, an admin alert carrying it is sent,
\* the source is marked failed, and nothing is saved or notified for it.
C8_LoadErrorIsFatal ==
    (last.called /\ F.called /\ F.load_raised)
    => /\ F.raised
       /\ \E i \in DOMAIN last.out.alerts : last.out.alerts[i].error = "load"
       /\ ~last.out.ok
       /\ ~F.saved
       /\ last.out.notes = <<>>

\* C9: load_latest_meeting_ids raises when the storage backend fails with an
\* error other than object-not-found or JSON corruption; it does not return
\* an empty map in that case.
C9_LatestIdsLoadRaises ==
    (last.called /\ M.called /\ M.fault # "none") => M.load_raised

\* C10: both loaders return the empty map without raising when the stored
\* object is missing, is not JSON, is not a JSON object, or has an entry of
\* the wrong shape; one malformed entry empties the whole result.
C10_UnreadableLoadsEmpty ==
    /\ (last.called /\ F.called /\ F.fault = "none" /\ Unreadable(last.known0))
       => (~F.load_raised /\ F.loaded = EmptyMap)
    /\ (last.called /\ M.called /\ M.fault = "none" /\ Unreadable(last.latest0))
       => (~M.load_raised /\ M.loaded = EmptyMap)

C10_Witness ==
    /\ last.called /\ F.called /\ F.fault = "none"
    /\ last.known0.kind = "dict"
    /\ \E k \in DOMAIN last.known0.data : last.known0.data[k].ok
    /\ \E k \in DOMAIN last.known0.data : ~last.known0.data[k].ok
    /\ F.loaded = EmptyMap

\* C11: a failed state write never aborts the cycle.  A save that fails is
\* swallowed: nothing is raised, no admin alert is sent, the stored document
\* stays as it was and the source is marked succeeded.  When the save fails
\* after new URLs were found for a known source, find_new_pdf_urls still
\* returns all of current minus known and the notification for them is sent;
\* a new meeting id is notified as well.
C11_FailedWriteDoesNotAbort ==
    /\ (Reconciled /\ F.save_failed)
       => /\ ~F.raised /\ ~last.out.raised
          /\ last.out.ok
          /\ last.out.alerts = <<>>
          /\ last.out.known = last.known0
          /\ last.url \in DOMAIN F.loaded
               => /\ F.ret = F.current \ Range(F.loaded[last.url])
                  /\ F.ret # {}
                  /\ Len(last.out.notes) = 1
                  /\ last.out.notes[1].urls = F.ret
    /\ (MeetingChecked /\ M.save_failed)
       => /\ last.out.ok /\ ~last.out.raised
          /\ last.out.alerts = <<>>
          /\ last.out.notes # <<>>
          /\ last.out.latest = last.latest0

C11_Witness ==
    /\ Reconciled /\ F.save_failed
    /\ last.url \in DOMAIN F.loaded /\ Range(F.loaded[last.url]) # {}
    /\ F.ret # {} /\ last.out.notes # <<>> /\ last.out.ok

\* C13: absent record.  When the fetch of a meeting source succeeds and the
\* extractor returns None, the source is marked succeeded, no notification is
\* sent, the latest-id state is neither saved nor changed, and no admin alert
\* is raised.
C13_AbsentRecord ==
    (/\ last.called /\ cfg.url_configs[last.url] = "meeting"
     /\ last.fetch = "html" /\ last.parse.k = "none")
    => /\ last.out.ok /\ ~last.out.raised
       /\ last.out.notes = <<>>
       /\ ~M.saved
       /\ "save_ids" \notin Range(last.out.events)
       /\ last.out.latest = last.latest0
       /\ last.out.alerts = <<>>
       /\ "alert" \notin Range(last.out.events)

C13_Witness ==
    /\ last.called /\ cfg.url_configs[last.url] = "meeting"
    /\ last.fetch = "html" /\ last.parse.k = "none"
    /\ last.latest0.kind = "dict" /\ last.url \in DOMAIN last.latest0.data
    /\ last.out.ok

\* C16: for a document-list source the main-channel notification is sent if
\* and only if find_new_pdf_urls returned a non-empty set, and then it is one
\* payload of type pdf for that source whose data are exactly the extracted
\* documents with a url in the returned set: no document that the loaded map
\* already knew is in it.
C16_NotifyExactlyNew ==
    (last.called /\ cfg.url_configs[last.url] = "pdf")
    => /\ (last.out.notes # <<>>) <=> (F.called /\ F.ret # {})
       /\ last.out.notes # <<>>
            => /\ Len(last.out.notes) = 1
               /\ last.out.notes[1].type = "pdf"
               /\ last.out.notes[1].source_url = last.url
               /\ last.out.notes[1].urls = {d \in last.parse.urls : d \in F.ret}
               /\ last.out.notes[1].urls = F.ret
               /\ last.out.notes[1].urls
                    \cap known_urls_for_target(last.url, F.loaded) = {}

C16_Witness ==
    /\ Reconciled /\ last.url \in DOMAIN F.loaded
    /\ F.current \cap Range(F.loaded[last.url]) # {}
    /\ Len(last.out.notes) = 1
    /\ last.out.notes[1].urls # {} /\ last.out.notes[1].urls # F.current

\* the URLs that a stored known-URLs document holds for source u
StoredSet(doc, u) ==
    IF doc.kind = "dict" /\ u \in DOMAIN doc.data /\ doc.data[u].ok
    THEN Range(doc.data[u].v) ELSE {}

\* source u has no fewer URLs in document after than in document before
Grown(before, after) ==
    \A u \in DOMAIN url_configs : StoredSet(before, u) \subseteq StoredSet(after, u)

\* load_known_urls gave find_new_pdf_urls what the stored document holds
LoadedAsStored ==
    \A u \in DOMAIN url_configs :
        known_urls_for_target(u, F.loaded) = StoredSet(last.known0, u)

Prev == hist.prev

\* that call was for the source of the call that just returned
PrevSameSource == last.called /\ Prev.called /\ Prev.url = last.url

\* C12: duplicate notification after a lost write.  When the latest earlier
\* reconciliation of the source found the key present, returned a non-empty
\* set N and its save failed, a following call that observes the same URLs
\* and whose load succeeds returns N again and notifies exactly N a second
\* time.
C12_DuplicateAfterLostWrite ==
    (/\ PrevSameSource /\ Prev.key /\ Prev.ret # {} /\ Prev.save_failed
     /\ Reconciled /\ F.fault = "none" /\ F.current = Prev.current)
    => /\ Prev.notified
       /\ F.ret = Prev.ret
       /\ Len(last.out.notes) = 1
       /\ last.out.notes[1].urls = Prev.ret

C12_Witness ==
    /\ PrevSameSource /\ Prev.key /\ Prev.ret # {} /\ Prev.save_failed
    /\ Reconciled /\ F.fault = "none" /\ F.current = Prev.current
    /\ Prev.ret # Prev.current
    /\ last.out.notes # <<>>

\* C14: an empty current URL set with the source's key absent persists
\* nothing: nothing is returned, notified or saved and the stored document
\* is unchanged, the key still absent; so when the next reconciliation of
\* the source observes a non-empty set it is a first observation again:
\* nothing is returned or notified and the observed URLs are saved.
C14_EmptyFirstRunPersistsNothing ==
    /\ (Reconciled /\ last.url \notin DOMAIN F.loaded /\ F.current = {})
       => /\ F.ret = {}
          /\ last.out.notes = <<>>
          /\ ~F.saved
          /\ "save_known" \notin Range(last.out.events)
          /\ last.out.known = last.known0
          /\ F.fault = "none" => last.url \notin DOMAIN ParseDoc(last.out.known)
    /\ (/\ PrevSameSource /\ ~Prev.key /\ Prev.fault = "none" /\ Prev.current = {}
        /\ Reconciled /\ F.current # {})
       => /\ last.url \notin DOMAIN F.loaded
          /\ F.ret = {}
          /\ last.out.notes = <<>>
          /\ F.saved
          /\ F.save_arg[last.url] = SortedList(F.current)

C14_Witness ==
    /\ PrevSameSource /\ ~Prev.key /\ Prev.fault = "none" /\ Prev.current = {}
    /\ Reconciled /\ F.fault = "none" /\ F.current # {}
    /\ F.saved /\ ~F.save_failed

\* C15: absent versus present but empty.  With the source's key present
\* with an empty list and a non-empty current set, find_new_pdf_urls returns
\* all current URLs and they are notified; with the key absent it returns
\* the empty set and nothing is notified.
C15_AbsentVersusEmpty ==
    /\ (/\ Reconciled /\ last.url \in DOMAIN F.loaded
        /\ F.loaded[last.url] = <<>> /\ F.current # {})
       => /\ F.ret = F.current
          /\ Len(last.out.notes) = 1
          /\ last.out.notes[1].urls = F.current
    /\ (Reconciled /\ last.url \notin DOMAIN F.loaded)
       => (F.ret = {} /\ last.out.notes = <<>>)

C15_Witness ==
    /\ Reconciled /\ last.url \in DOMAIN F.loaded
    /\ F.loaded[last.url] = <<>> /\ F.current = Urls
    /\ last.out.notes # <<>>

Seen(u) ==
    hist.seen[u] \cup (IF Reconciled /\ last.url = u THEN F.current ELSE {})

FetchDone == fs.pc = "done"

\* every request so far failed
AllFailed == \A i \in DOMAIN fs.log : fs.log[i] \in Failures

\* what holds of a fetch_html call at every step
FetchBound ==
    /\ Len(fs.log) <= fs.retries
    /\ Len(fs.log) <= fs.attempts /\ fs.attempts <= fs.retries
    /\ \A i \in DOMAIN fs.log : fs.log[i] \notin Failures => (i = Len(fs.log) /\ FetchDone)
    /\ \A i \in DOMAIN fs.slept : fs.slept[i] = fs.delay
    /\ Len(fs.slept) <= Len(fs.log)
    /\ Len(fs.slept) < fs.retries \/ fs.retries = 0
    /\ FetchDone
         => /\ Len(fs.slept) = IF fs.log = <<>> THEN 0 ELSE Len(fs.log) - 1
            /\ AllFailed => (fs.ret = "none" /\ Len(fs.log) = fs.retries)
            /\ ~AllFailed => fs.ret = fs.log[Len(fs.log)]

\* C20: fetch retry bound.  fetch_html makes at most retries requests; at
\* the first request that succeeds it returns that response's text and makes
\* no further request; it sleeps for delay only between two attempts, so
\* retries - 1 times when every attempt fails (never with retries = 0, where
\* no request is made); it returns None after the last failed attempt,
\* whether the failures are request errors or other exceptions; and the call
\* always returns.
C20_FetchRetryBound == []FetchBound /\ <>FetchDone

C20_Witness ==
    /\ FetchDone /\ fs.ret = "none" /\ fs.retries >= 2
    /\ Len(fs.log) = fs.retries /\ Len(fs.slept) = fs.retries - 1
    /\ \E i, j \in DOMAIN fs.log :
          fs.log[i] = "RequestException" /\ fs.log[j] = "Exception"

\* how often event e is in the event list of the call that just returned
Count(e) == Cardinality({i \in DOMAIN last.out.events : last.out.events[i] = e})

\* the sources of the finished run for which a state map of kind type was
\* loaded
Loads(type) ==
    {i \in DOMAIN results :
        results[i].storage /\ cfg.url_configs[results[i].url] = type}

Racer(p) == rc.run[p]

RaceOver == \A p \in Racers : Racer(p).pc = "done"

\* both runs have notified the same document of the same source
DoubleNotified ==
    /\ Racer(1).url = Racer(2).url
    /\ Racer(1).notified \cap Racer(2).notified # {}

\* a URL that a run wrote for a source is not in the stored document when
\* both runs are over
LostUpdate ==
    /\ RaceOver
    /\ \E p \in Racers :
          /\ Racer(p).f.saved
          /\ \E u \in DOMAIN Racer(p).f.save_arg :
                ~(Range(Racer(p).f.save_arg[u]) \subseteq StoredSet(known, u))

\* C22: overlapping runs are racy.  Nothing excludes the other run between a
\* run's load and its save: what a run returns and notifies is current minus
\* the known URLs of the map it loaded, whatever the other run has written
\* since, so two runs that loaded the same map for a source notify the same
\* new documents; and the stored document is always the whole map of the run
\* that wrote last, so an addition of the other run that this map lacks is
\* erased.  An interleaving with a double notification and a lost update is
\* reached (C22_Witness).
C22_RacyOverlap ==
    /\ \A p \in Racers :
          Racer(p).pc # "load"
          => Racer(p).f.ret =
               IF Racer(p).url \in DOMAIN Racer(p).f.loaded
               THEN Racer(p).f.current \ Range(Racer(p).f.loaded[Racer(p).url])
               ELSE {}
    /\ \A p \in Racers : Racer(p).pc = "done" => Racer(p).notified = Racer(p).f.ret
    /\ (/\ RaceOver /\ Racer(1).url = Racer(2).url
        /\ Racer(1).f.loaded = Racer(2).f.loaded
        /\ Racer(1).url \in DOMAIN Racer(1).f.loaded)
       => Racer(1).notified \cap Racer(2).notified
            = (Racer(1).f.current \cap Racer(2).f.current)
                \ Range(Racer(1).f.loaded[Racer(1).url])
    /\ rc.writer # 0 => known = DictDoc(Racer(rc.writer).f.save_arg)

C22_Witness == DoubleNotified /\ LostUpdate

(* ----------------------- pages that cannot be parsed ------------------ *)

\* what the extractor of monitor type 'type' returns on a page
Extracted(type, page) ==
    IF type = "pdf" THEN extract_hospital_document_info(page)
    ELSE extract_latest_chuikyo_meeting(page)

\* the call that has just returned fetched a page on which its extractor threw
OnMalformedPage ==
    /\ last.called /\ last.fetch = "html"
    /\ last.url \in DOMAIN cfg.url_configs
    /\ \E page \in Pages :
          /\ page.malformed
          /\ last.parse = Extracted(cfg.url_configs[last.url], page)

\* C23: a page on which the extractor throws is not a failure: the extractor
\* returns an empty list (documents) or None (record) instead of raising, and
\* process_url returns True having sent no admin alert and no notification
\* and having written neither stored document.
C23_MalformedPageIsNotFailure ==
    OnMalformedPage =>
        /\ last.parse.k \in {"list", "none"} /\ last.parse.urls = {}
        /\ last.out.ok /\ ~last.out.raised
        /\ last.out.alerts = <<>> /\ last.out.notes = <<>>
        /\ Range(last.out.events) \cap {"save_known", "save_ids", "notify", "alert"} = {}
        /\ last.out.known = last.known0 /\ last.out.latest = last.latest0

\* a document-list source whose key is stored with known URLs meets a
\* malformed page
C23_Witness ==
    /\ OnMalformedPage
    /\ cfg.url_configs[last.url] = "pdf"
    /\ last.out.fnp.called /\ ~last.out.fnp.load_raised
    /\ last.url \in DOMAIN last.out.fnp.loaded
    /\ last.out.fnp.loaded[last.url] # <<>>

\* a meeting source with a stored id meets a malformed page
MalformedRecordPage ==
    /\ OnMalformedPage
    /\ cfg.url_configs[last.url] = "meeting"
    /\ latest # MissingDoc

(* ------------------------ unconfigured target URLs -------------------- *)

\* the URLs of TARGET_URLS that are not in the per-URL mapping
Unconfigured == {u \in Range(env) : u \notin DOMAIN url_configs}

\* the entry point answered 500 or exit(1)
ReportedFailure == pc = "done" /\ response \in {"500", "exit1"}

\* no process_url call of this run was made for an unconfigured URL
NeverProcessed ==
    /\ last.called => last.url \notin Unconfigured
    /\ \A i \in DOMAIN results : results[i].url \notin Unconfigured

\* this run's process_url calls so far are for the configured URLs of
\* TARGET_URLS, in their order
ConfiguredInOrder ==
    \A i \in DOMAIN results : results[i].url = valid_target_urls(env)[i]

\* C24 as stated: a target URL that is not in the per-URL mapping is never
\* fetched or reconciled, and a run whose TARGET_URLS holds one reports
\* failure only if one of the sources it processed failed.
C24_UnconfiguredIgnored ==
    Unconfigured # {} =>
        /\ NeverProcessed
        /\ ReportedFailure => \E i \in DOMAIN results : ~results[i].ok

\* C24, amended: an unconfigured target URL is never fetched or reconciled
\* and the configured ones are processed in order; the run reports failure
\* only if a processed source failed or no URL of TARGET_URLS is configured,
\* and in the latter case it always does, without processing anything.
C24_IgnoredBesideConfigured ==
    Unconfigured # {} =>
        /\ NeverProcessed /\ ConfiguredInOrder
        /\ ReportedFailure =>
              \/ \E i \in DOMAIN results : ~results[i].ok
              \/ Range(env) \subseteq Unconfigured
        /\ (pc = "done" /\ Range(env) \subseteq Unconfigured) =>
              ReportedFailure /\ results = <<>>

\* TARGET_URLS holds an unconfigured URL and a configured one; the run is
\* over, it processed the configured one, found something new and answered 200
C24_Witness ==
    /\ Unconfigured # {} /\ ~(Range(env) \subseteq Unconfigured)
    /\ pc = "done" /\ response = "200"
    /\ Len(results) = 1 /\ results[1].fetched /\ results[1].notified

(* ---------------------- order of persist and notify ------------------- *)

\* the steps of the call that has just returned, in their order
Steps == last.out.events

\* step a was made, and before every step b
Before(a, b) ==
    /\ \E i \in DOMAIN Steps : Steps[i] = a
    /\ \A i, j \in DOMAIN Steps : (Steps[i] = a /\ Steps[j] = b) => i < j

\* C25: a document-list source writes the known-URLs state before it
\* notifies, a meeting source notifies before it writes the latest-id
\* state, and both load their state before either step.
C25_PersistNotifyOrder ==
    (last.called /\ "notify" \in Range(Steps)) =>
        IF cfg.url_configs[last.url] = "pdf"
        THEN /\ Before("load_known", "save_known") /\ Before("load_known", "notify")
             /\ "save_known" \in Range(Steps) => Before("save_known", "notify")
             /\ Range(Steps) \cap {"load_ids", "save_ids"} = {}
        ELSE /\ Before("load_ids", "notify") /\ Before("load_ids", "save_ids")
             /\ Before("notify", "save_ids")
             /\ Range(Steps) \cap {"load_known", "save_known"} = {}

\* a document-list source has loaded, written and then notified
C25_Witness ==
    /\ last.called /\ cfg.url_configs[last.url] = "pdf"
    /\ Steps = <<"fetch", "parse", "load_known", "save_known", "notify">>
    /\ known # last.known0

\* a meeting source has loaded, notified and then written
MeetingNotifiedThenSaved ==
    /\ last.called /\ cfg.url_configs[last.url] = "meeting"
    /\ Steps = <<"fetch", "parse", "load_ids", "notify", "save_ids">>
    /\ latest # last.latest0

(* ------------------------- failed Slack delivery ---------------------- *)

\* the notification of the call that has just returned was not delivered
Undelivered == last.called /\ last.out.notes # <<>> /\ ~last.out.notes[1].delivered

\* the call that has just returned notified, and its load met no fault
NotifiedFromState(type, fault) ==
    /\ last.called /\ last.out.notes # <<>>
    /\ last.out.notes[1].type = type /\ fault = "none"

UndeliveredMeetingStored ==
    /\ Undelivered /\ last.out.notes[1].type = "meeting" /\ ~M.save_failed
    /\ latest # last.latest0

(* --------------------- reconciliation on an unreadable document ------- *)

\* the call that has just returned reconciled a non-empty current set
\* against a stored known-URLs document that is unreadable, without a
\* storage fault
OnUnreadableKnown ==
    /\ last.called /\ F.called /\ F.fault = "none"
    /\ Unreadable(last.known0) /\ F.current # {}

\* C27: when the stored known-URLs document is unreadable or has a malformed
\* entry, a reconciliation with a non-empty current set is a first
\* observation: nothing is returned as new and nothing notified, the map
\* handed to save_known_urls has the processed source as its only key, and
\* once written the stored document holds no URL of any other source.
C27_UnreadableIsFirstObservation ==
    OnUnreadableKnown =>
        /\ ~F.load_raised /\ F.ret = {} /\ last.out.notes = <<>>
        /\ F.saved /\ DOMAIN F.save_arg = {last.url}
        /\ Range(F.save_arg[last.url]) = F.current
        /\ ~F.save_failed =>
              /\ last.out.known = DictDoc(Put(EmptyMap, last.url, SortedList(F.current)))
              /\ \A u \in DOMAIN url_configs \ {last.url} :
                    StoredSet(last.out.known, u) = {}

\* the stored document had a malformed entry beside the known URLs of
\* another source, and those URLs are gone after the call
C27_Witness ==
    /\ OnUnreadableKnown /\ ~F.save_failed
    /\ last.known0.kind = "dict"
    /\ \E u \in DOMAIN url_configs \ {last.url} :
          /\ StoredSet(last.known0, u) # {}
          /\ StoredSet(known, u) = {}

(* ----------------------- at-most-once notification -------------------- *)

\* the document URLs in the notification of the call that has just returned
NotifiedUrls == IF last.out.notes = <<>> THEN {} ELSE last.out.notes[1].urls

\* no save has failed and no load has met a fault, up to and including the
\* reconciliation that has just returned
NoFaultSoFar == ~hist.lost /\ Reconciled /\ ~F.save_failed /\ F.fault = "none"

\* C28: at-most-once notification without faults.  While no load or save
\* has failed, a reconciliation notifies no URL that an earlier
\* reconciliation of the source had in its current set (and so notified or
\* took as known), and a first observation notifies nothing.
C28_AtMostOnce ==
    NoFaultSoFar =>
        /\ NotifiedUrls \cap hist.seen[last.url] = {}
        /\ last.url \notin DOMAIN F.loaded => NotifiedUrls = {}

\* the source's earlier reconciliation notified URLs, and this one sees them
\* again beside a new one and notifies the new one only
C28_Witness ==
    /\ NoFaultSoFar /\ PrevSameSource
    /\ Prev.notified /\ Prev.ret # {} /\ Prev.ret \subseteq F.current
    /\ NotifiedUrls # {} /\ NotifiedUrls = F.current \ hist.seen[last.url]

\* a first observation was followed by a reconciliation of the same URLs
\* beside a new one
FirstObservedThenMore ==
    /\ NoFaultSoFar /\ PrevSameSource
    /\ ~Prev.key /\ Prev.current # {} /\ Prev.current \subseteq F.current
    /\ NotifiedUrls # {} /\ NotifiedUrls \cap Prev.current = {}

(* --------------------- failed sources and admin alerts ---------------- *)

\* C29: every source that process_url marks as failed has had an admin
\* alert sent for it in that call.
C29_FailedSourceHasAlert ==
    (last.called /\ ~last.out.ok) => last.out.alerts # <<>>

(* ----------------------------- empty response ------------------------- *)

\* C30: a fetch that succeeds with an empty body is handled as a fetch
\* failure: one admin alert ("HTML fetch failed"), the source marked failed,
\* no extraction, no state load or save and no notification.
C30_EmptyBodyIsFetchFailure ==
    (last.called /\ last.fetch = "empty") =>
        /\ ~last.out.ok
        /\ last.out.alerts = <<Alert("HTML fetch failed", "")>>
        /\ last.out.events = <<"fetch", "alert">>
        /\ last.out.notes = <<>>
        /\ ~F.called /\ ~M.called
        /\ last.out.known = last.known0 /\ last.out.latest = last.latest0

\* an empty body came back for a document-list source with stored URLs
C30_Witness ==
    /\ last.called /\ last.fetch = "empty"
    /\ StoredSet(last.known0, last.url) # {}
    /\ ~last.out.ok

====
